---- MODULE Spec2Model ----
(***************************************************************************)
(* Life Moves API: the route handlers of main.py over the entity shapes of *)
(* schemas.py and the document store adapter (database.py, which the      *)
(* handlers import: create_document, get_documents, db).                  *)
(*                                                                         *)
(* Python values:                                                          *)
(*   dict            a function from key strings to values                 *)
(*   Optional[T]     a set with at most one element; None is {}            *)
(*   str             a TLA+ string; the texts that are searched (title,    *)
(*                   description, q) are sequences of characters           *)
(*   ObjectId        [oid |-> <<collection, n>>], n >= 1: the n-th         *)
(*                   identifier the store assigned in that collection      *)
(***************************************************************************)
EXTENDS Integers, Sequences, FiniteSets, TLC

VARIABLES
    db,      \* database.db: the process-wide store handle, None or a handle
    store,   \* the backing store: collection name -> sequence of documents
    nextId,  \* the store's identifier source: per collection, the serial number
             \* of the next ObjectId it assigns
    pc,      \* per worker: where its (two-store-step) auth handler stands
    local,   \* per worker: the locals of the handler it is running
    seen,    \* per worker: how many user documents there were when its
             \* signup's find_one read the collection (history)
    last     \* the request completed last and the response it got; tick
             \* alternates from one response to the next

vars == <<db, store, nextId, pc, local, seen, last>>

----------------------------------------------------------------------------
(* Bounds *)

NumWorkers == 2
MaxUsers == 1        \* user records beyond which no signup that would insert starts
MaxDocs == 2        \* documents per collection, where a specification says so
MaxTotal == 2       \* documents in the whole store, where a specification says so
MaxCheckins == 31   \* check-ins, in the specification of the limited lists
MaxPosts == 51      \* posts, in the specification of the limited lists
MaxMixed == 2       \* how many leading documents of a long collection vary

Workers == 1..NumWorkers

----------------------------------------------------------------------------
(* Python values *)

None == {}
Some(v) == {v}
Val(o) == CHOOSE v \in o : TRUE

\* bool(o) of an Optional[str] or Optional[text]: None and "" are falsy
TruthyStr(o) == o # None /\ Val(o) # ""
TruthyText(o) == o # None /\ Val(o) # <<>>

\* dict.pop(k, None)
Pop(doc, k) == [f \in (DOMAIN doc) \ {k} |-> doc[f]]

\* d[k] = v
Put(doc, k, v) == (k :> v) @@ Pop(doc, k)

\* bson ObjectId and str() of it
ObjectId(name, n) == [oid |-> <<name, n>>]
Str(id) == id.oid[1] \o "-" \o ToString(id.oid[2])

Abs(n) == IF n < 0 THEN -n ELSE n

\* hash() of a str, fixed for the life of the process.  "p" and "q" are two
\* passwords whose hashes differ in sign only, so abs() maps them together;
\* "r" hashes elsewhere.
PyHash(s) ==
    CASE s = "p" -> 5
      [] s = "q" -> -5
      [] s = "r" -> 7
      [] OTHER -> 11 + Len(s)

\* f"sha1::{abs(hash(password))}"
PasswordHash(password) == <<"sha1::", Abs(PyHash(password))>>

\* f"tok_{abs(hash(email + password))}"
Token(email, password) == <<"tok_", Abs(PyHash(email \o password))>>

----------------------------------------------------------------------------
(* schemas.py *)

\* EmailStr: what is not an address is rejected; an address is normalised
\* (the domain part is lower-cased)
ValidEmail(e) == e \in {"a@x.io", "a@X.IO"}
NormalizeEmail(e) == IF e = "a@X.IO" THEN "a@x.io" ELSE e

User(name, email, password_hash) ==
    [name |-> name, email |-> NormalizeEmail(email),
     password_hash |-> password_hash, plan |-> "free",
     preferences |-> <<>>, streak |-> 0]

\* a model built from a payload: the fields given, the defaults for the rest
ContentItem(p) ==
    p @@ [description |-> None, category |-> "mindfulness", tags |-> <<>>,
          tier |-> "free", duration_minutes |-> None, media_url |-> None]

Task(p) == p @@ [notes |-> None, completed |-> TRUE]

\* datetime.utcnow(), the default of the two timestamps
Now == "utcnow"

Checkin(p) == p @@ [mood |-> "ok", note |-> None, date |-> Now]

Squad(p) == p @@ [description |-> None, members |-> <<>>]

Post(p) == p @@ [squad_id |-> None, created_at |-> Now]

DefaultWeeks == 4
Program(p) == p @@ [description |-> None, weeks |-> DefaultWeeks, tier |-> "free"]

Enrollment(p) == p @@ [progress_week |-> 0]

Feedback(p) == p @@ [user_id |-> None, rating |-> None]

\* Field(None, ge=1, le=5) on Optional[int]
RatingMin == 1
RatingMax == 5

\* (mutant) the upper bound is left out
ValidRating_no_le(r) == r = None \/ Val(r) >= RatingMin

ValidRating(r) == r = None \/ (Val(r) >= RatingMin /\ Val(r) <= RatingMax)
ValidFeedback(p) == ValidRating(Feedback(p).rating)

----------------------------------------------------------------------------
(* database.py *)

Connected == db # None

\* db[name]
collection(name) == store[name]

\* (mutant) the lookup reads another field than the one the records are keyed by
find_one_email_by_name(docs, email) ==
    LET IsMatch(d) == d.name = email
        m == SelectSeq(docs, IsMatch)
    IN  IF m = <<>> THEN None ELSE Some(Head(m))

\* collection.find_one({"email": email}): the first match, or None
find_one_email(docs, email) ==
    LET IsMatch(d) == d.email = email
        m == SelectSeq(docs, IsMatch)
    IN  IF m = <<>> THEN None ELSE Some(Head(m))

\* insert_one: the store assigns the identifier
Inserted(name, record) ==
    [store EXCEPT ![name] = Append(@, Put(record, "_id", ObjectId(name, nextId[name])))]

\* collection.update_one({"_id": id}, {"$set": {field: value}})
Updated(name, id, field, value) ==
    [store EXCEPT ![name] =
        [i \in 1..Len(@) |-> IF @[i]["_id"] = id THEN Put(@[i], field, value) ELSE @[i]]]

\* a filter criterion: {field: value} is $eq; {field: {"$in": [..]}} holds of
\* an array field when one of its elements is listed
Eq(v) == [op |-> "$eq", v |-> v]
In(vs) == [op |-> "$in", v |-> vs]

Holds(doc, field, crit) ==
    /\ field \in DOMAIN doc
    /\ IF crit.op = "$eq" THEN doc[field] = crit.v
       ELSE \E i \in DOMAIN doc[field] : \E j \in DOMAIN crit.v : doc[field][i] = crit.v[j]

Matches(doc, filt) == \A field \in DOMAIN filt : Holds(doc, field, filt[field])

Min(a, b) == IF a < b THEN a ELSE b

\* get_documents(name, filt, limit) on a connected store: the matching
\* documents in store order, up to limit of them when a limit is given
get_documents(name, filt, limit) ==
    LET IsMatch(d) == Matches(d, filt)
        m == SelectSeq(collection(name), IsMatch)
    IN  IF limit = None THEN m ELSE SubSeq(m, 1, Min(Val(limit), Len(m)))

----------------------------------------------------------------------------
(* Responses *)

Reply(op, payload, status, error, body) ==
    [op |-> op, payload |-> payload, status |-> status, error |-> error, body |-> body,
     tick |-> ~last.tick]

Ok(op, payload, body) == Reply(op, payload, 200, "none", body)
Fail(op, payload, status, error) == Reply(op, payload, status, error, None)

\* an exception no handler catches: the server answers 500
Unhandled(op, payload, exc) == Reply(op, payload, 500, exc, None)

Idle == [op |-> "none", tick |-> FALSE]

\* the auth handlers' variables, which the one-step handlers leave alone
auth == <<pc, local, seen>>

\* create_document(name, record) and the handler's return {"id": new_id}
create_document(op, payload, name, record) ==
    IF ~Connected
    THEN /\ last' = Fail(op, payload, 500, "StoreUnavailable")
         /\ UNCHANGED <<store, nextId>>
    ELSE /\ store' = Inserted(name, record)
         /\ nextId' = [nextId EXCEPT ![name] = @ + 1]
         /\ last' = Ok(op, payload, [id |-> Str(ObjectId(name, nextId[name]))])

\* a list handler's answer: get_documents raises on a store that is not there
listing(op, query, docs) ==
    IF ~Connected THEN Fail(op, query, 500, "StoreUnavailable") ELSE Ok(op, query, docs)

\* what a handler that only reads leaves alone
reads == <<db, store, nextId, pc, local, seen>>

\* (mutant) the identifier is copied, not moved
with_id_kept(d) ==
    IF "_id" \in DOMAIN d THEN Put(d, "id", Some(Str(d["_id"]))) ELSE Put(d, "id", None)

\* (mutant) the test is the wrong way round
with_id_inverted(d) ==
    IF "_id" \in DOMAIN d THEN Put(d, "id", None) ELSE Put(Pop(d, "_id"), "id", None)

\* d["id"] = str(d.pop("_id")) if d.get("_id") else None
\* (an ObjectId is truthy)
with_id(d) ==
    IF "_id" \in DOMAIN d
    THEN Put(Pop(d, "_id"), "id", Some(Str(d["_id"])))
    ELSE Put(d, "id", None)

\* d.pop("_id", None)
without_id(d) == Pop(d, "_id")

\* response_model=List[ContentItem] / List[Program]: the model's fields only
ContentItemFields ==
    {"title", "description", "category", "tags", "tier", "duration_minutes", "media_url"}
ProgramFields == {"title", "description", "weeks", "tier"}
Project(d, fields) == [f \in (DOMAIN d) \cap fields |-> d[f]]

\* for d in docs: d["id"] = ...
with_ids(docs) == [i \in 1..Len(docs) |-> with_id(docs[i])]

\* the records as the response model serialises them, _id popped
shaped(docs, fields) == [i \in 1..Len(docs) |-> Project(without_id(docs[i]), fields)]

----------------------------------------------------------------------------
(* Inputs *)

Names == {"Al"}
Emails == {"a@x.io", "a@X.IO", "nope"}
Passwords == {"p", "q", "r"}

SignupRequest == [name : Names, email : Emails, password : {"p", "r"}]
LoginRequest == [email : {"a@x.io", "a@X.IO"}, password : Passwords]

UserIds == {"u1", "u2"}

\* a payload may leave out the fields that have defaults
Titles == {<<"A", "b">>, <<"b", "b">>}
ContentPayloads ==
    {[title |-> t] @@ d @@ c :
        t \in Titles,
        d \in {<<>>, [description |-> Some(<<"B", "a">>)]},
        c \in {<<>>, [category |-> "art"]}}
ContentQueries ==
    [category : {None, Some("art")},
     q : {None, Some(<<>>), Some(<<"A">>), Some(<<"B", "A">>)},
     tier : {None, Some("pro")}]

TaskPayloads ==
    {[user_id |-> u, week |-> w, task_type |-> "art"] @@ c :
        u \in UserIds, w \in {"w1", "w2"}, c \in {<<>>, [completed |-> FALSE]}}
TaskQueries == [user_id : UserIds, week : {None, Some("w1")}]

CheckinPayloads == {[user_id |-> u] : u \in UserIds}
CheckinQueries ==
    [user_id : UserIds, limit : {None, Some(0), Some(1), Some(MaxCheckins)}]

SquadPayloads ==
    {[name |-> "Morning Crew", owner_id |-> o] @@ m :
        o \in UserIds,
        m \in {<<>>} \cup {[members |-> ms] :
                 ms \in {<<>>, <<"u1">>, <<"u2", "u1">>, <<"u3", "u2">>, <<"u1", "u3", "u1">>}}}
SquadQueries == [member_id : {None, Some("u1"), Some("u3")}]

PostPayloads ==
    {[user_id |-> "u1", text |-> "hi"] @@ sq : sq \in {<<>>, [squad_id |-> Some("s1")]}}
PostQueries ==
    [squad_id : {None, Some("s1")}, user_id : {None, Some("u1")},
     limit : {None, Some(0), Some(1), Some(MaxPosts)}]

ProgramPayloads == {[title |-> "Calm"] @@ t : t \in {<<>>, [tier |-> "pro"]}}
ProgramQueries == [tier : {None, Some("pro")}]

EnrollmentPayloads == {[user_id |-> u, program_id |-> "p1"] : u \in UserIds}
EnrollmentQueries == [user_id : UserIds]

FeedbackPayloads ==
    {[message |-> m] @@ r :
        m \in {"hi", "yo"},
        r \in {<<>>} \cup {[rating |-> Some(n)] : n \in {0, 1, 3, 5, 6}}}

----------------------------------------------------------------------------
(* main.py: auth *)

\* (mutant) the signup does not look the email up
signup_existing_skipped(email) == None

\* existing = collection("user").find_one({"email": payload.email})
signup_existing(email) == find_one_email(collection("user"), email)

\* signup, lines 76-80: the availability check and the uniqueness lookup
signup_find(w, payload) ==
    /\ pc[w] = "idle"
    /\ \/ Len(store["user"]) < MaxUsers
       \/ \E i \in DOMAIN store["user"] : store["user"][i].email = payload.email
    /\ IF ~Connected
       THEN /\ last' = Fail("signup", payload, 500, "StoreUnavailable")
            /\ UNCHANGED <<pc, local, seen>>
       ELSE LET existing == signup_existing(payload.email)
            IN  IF existing # None
                THEN /\ last' = Fail("signup", payload, 400, "Conflict")
                     /\ UNCHANGED <<pc, local, seen>>
                ELSE /\ pc' = [pc EXCEPT ![w] = "signup_create"]
                     /\ local' = [local EXCEPT ![w] = [payload |-> payload]]
                     /\ seen' = [seen EXCEPT ![w] = Len(store["user"])]
                     /\ UNCHANGED last
    /\ UNCHANGED <<db, store, nextId>>

\* signup, lines 82-85: build the User and create the document
signup_create(w) ==
    /\ pc[w] = "signup_create"
    /\ LET payload == local[w].payload
       IN  IF ~ValidEmail(payload.email)
           THEN /\ last' = Unhandled("signup", payload, "ValidationError")
                /\ UNCHANGED <<store, nextId>>
           ELSE create_document("signup", payload, "user",
                    User(payload.name, payload.email, PasswordHash(payload.password)))
    /\ pc' = [pc EXCEPT ![w] = "idle"]
    /\ local' = [local EXCEPT ![w] = <<>>]
    /\ seen' = [seen EXCEPT ![w] = 0]
    /\ UNCHANGED db

\* (mutant) the credential is not compared
credential_differs_never(u, password) == FALSE

\* expected != f"sha1::{abs(hash(payload.password))}"
credential_differs(u, password) == u.password_hash # PasswordHash(password)

\* login, lines 90-97: find the user, compare the credential, mint the token
login_find(w, payload) ==
    /\ pc[w] = "idle"
    /\ IF ~Connected
       THEN /\ last' = Unhandled("login", payload, "TypeError")
            /\ UNCHANGED <<pc, local>>
       ELSE LET u == find_one_email(collection("user"), payload.email)
            IN  IF u = None
                THEN /\ last' = Fail("login", payload, 404, "NotFound")
                     /\ UNCHANGED <<pc, local>>
                ELSE IF credential_differs(Val(u), payload.password)
                THEN /\ last' = Fail("login", payload, 401, "Unauthorized")
                     /\ UNCHANGED <<pc, local>>
                ELSE /\ pc' = [pc EXCEPT ![w] = "login_update"]
                     /\ local' = [local EXCEPT ![w] =
                            [payload |-> payload, u |-> Val(u),
                             token |-> Token(payload.email, payload.password)]]
                     /\ UNCHANGED last
    /\ UNCHANGED <<db, store, nextId, seen>>

\* login, lines 98-99: store the token on the record found, and answer
login_update(w) ==
    /\ pc[w] = "login_update"
    /\ LET u == local[w].u
           token == local[w].token
       IN  /\ store' = Updated("user", u["_id"], "session_token", token)
           /\ last' = Ok("login", local[w].payload,
                         [token |-> token,
                          user |-> [id |-> Str(u["_id"]), name |-> u.name,
                                    email |-> u.email, plan |-> u.plan]])
    /\ pc' = [pc EXCEPT ![w] = "idle"]
    /\ local' = [local EXCEPT ![w] = <<>>]
    /\ UNCHANGED <<db, nextId, seen>>

----------------------------------------------------------------------------
(* main.py: library *)

\* str.lower()
LowerChar(c) == CASE c = "A" -> "a" [] c = "B" -> "b" [] OTHER -> c
Lower(t) == [i \in 1..Len(t) |-> LowerChar(t[i])]

\* needle in hay
Contains(needle, hay) ==
    \E i \in 0..(Len(hay) - Len(needle)) : SubSeq(hay, i + 1, i + Len(needle)) = needle

\* i.get("description", ""): the default only stands in for a missing key
get_description(i) == IF "description" \in DOMAIN i THEN i.description ELSE Some(<<>>)

\* ql in i.get("title", "").lower()
title_hit(i, ql) == Contains(ql, Lower(i.title))

\* ql in i.get("description", "").lower(), where the value is a str
description_hit(i, ql) == Contains(ql, Lower(Val(get_description(i))))

\* the comprehension's test raises AttributeError on an item whose title does
\* not match (so that the right operand of `or` is evaluated) and whose
\* description is None
search_raises(i, ql) == ~title_hit(i, ql) /\ get_description(i) = None

search_keeps(i, ql) == title_hit(i, ql) \/ description_hit(i, ql)

content_filter(query) ==
    (IF TruthyStr(query.category) THEN "category" :> Eq(Val(query.category)) ELSE <<>>)
    @@ (IF TruthyStr(query.tier) THEN "tier" :> Eq(Val(query.tier)) ELSE <<>>)

list_content(query) ==
    LET items == get_documents("contentitem", content_filter(query), None)
        ql == Lower(Val(query.q))
        Keeps(i) == search_keeps(i, ql)
    IN  IF Connected /\ TruthyText(query.q)
           /\ \E n \in 1..Len(items) : search_raises(items[n], ql)
        THEN /\ last' = Unhandled("list_content", query, "AttributeError")
             /\ UNCHANGED reads
        ELSE /\ last' = listing("list_content", query,
                        shaped(IF TruthyText(query.q) THEN SelectSeq(items, Keeps)
                               ELSE items,
                               ContentItemFields))
             /\ UNCHANGED reads

add_content(item, cap) ==
    /\ Len(store["contentitem"]) < cap
    /\ create_document("add_content", item, "contentitem", ContentItem(item))
    /\ UNCHANGED <<db, auth>>

----------------------------------------------------------------------------
(* main.py: tasks, check-ins, squads, posts, programs, enrollments, feedback *)

submit_task(task, cap) ==
    /\ Len(store["task"]) < cap
    /\ create_document("submit_task", task, "task", Task(task))
    /\ UNCHANGED <<db, auth>>

task_filter(query) ==
    ("user_id" :> Eq(query.user_id))
    @@ (IF TruthyStr(query.week) THEN "week" :> Eq(Val(query.week)) ELSE <<>>)

list_tasks(query) ==
    /\ last' = listing("list_tasks", query,
                       with_ids(get_documents("task", task_filter(query), None)))
    /\ UNCHANGED reads

create_checkin(checkin, cap) ==
    /\ Len(store["checkin"]) < cap
    /\ create_document("create_checkin", checkin, "checkin", Checkin(checkin))
    /\ UNCHANGED <<db, auth>>

\* limit: int = 30
CheckinsDefaultLimit == 30

\* (mutant) no default: an omitted limit is passed on as None
checkins_limit_none(query) == query.limit

checkins_limit(query) == IF query.limit = None THEN Some(CheckinsDefaultLimit) ELSE query.limit

list_checkins(query) ==
    /\ last' = listing("list_checkins", query,
                       with_ids(get_documents("checkin", "user_id" :> Eq(query.user_id),
                                         checkins_limit(query))))
    /\ UNCHANGED reads

\* (mutant) the owner is appended without looking
squad_members_always(owner_id, members) == Append(members, owner_id)

\* if squad.owner_id not in squad.members: squad.members.append(squad.owner_id)
squad_members(owner_id, members) ==
    IF \E i \in DOMAIN members : members[i] = owner_id THEN members
    ELSE Append(members, owner_id)

create_squad(squad, cap) ==
    /\ Len(store["squad"]) < cap
    /\ LET sq == Squad(squad)
       IN  create_document("create_squad", squad, "squad",
                           [sq EXCEPT !.members = squad_members(sq.owner_id, sq.members)])
    /\ UNCHANGED <<db, auth>>

squad_filter(query) ==
    IF TruthyStr(query.member_id) THEN "members" :> In(<<Val(query.member_id)>>) ELSE <<>>

list_squads(query) ==
    /\ last' = listing("list_squads", query,
                       with_ids(get_documents("squad", squad_filter(query), None)))
    /\ UNCHANGED reads

create_post(post, cap) ==
    /\ Len(store["post"]) < cap
    /\ create_document("create_post", post, "post", Post(post))
    /\ UNCHANGED <<db, auth>>

\* limit: int = 50
PostsDefaultLimit == 50

posts_limit(query) == IF query.limit = None THEN Some(PostsDefaultLimit) ELSE query.limit

post_filter(query) ==
    \* squad_id is Optional[str] in the document too: "s1" is stored as Some("s1")
    (IF TruthyStr(query.squad_id) THEN "squad_id" :> Eq(query.squad_id) ELSE <<>>)
    @@ (IF TruthyStr(query.user_id) THEN "user_id" :> Eq(Val(query.user_id)) ELSE <<>>)

list_posts(query) ==
    /\ last' = listing("list_posts", query,
                       with_ids(get_documents("post", post_filter(query), posts_limit(query))))
    /\ UNCHANGED reads

create_program(program, cap) ==
    /\ Len(store["program"]) < cap
    /\ create_document("create_program", program, "program", Program(program))
    /\ UNCHANGED <<db, auth>>

program_filter(query) ==
    IF TruthyStr(query.tier) THEN "tier" :> Eq(Val(query.tier)) ELSE <<>>

list_programs(query) ==
    /\ last' = listing("list_programs", query,
                       shaped(get_documents("program", program_filter(query), None),
                              ProgramFields))
    /\ UNCHANGED reads

enroll_user(enrollment, cap) ==
    /\ Len(store["enrollment"]) < cap
    /\ create_document("enroll_user", enrollment, "enrollment", Enrollment(enrollment))
    /\ UNCHANGED <<db, auth>>

list_enrollments(query) ==
    /\ last' = listing("list_enrollments", query,
                       with_ids(get_documents("enrollment", "user_id" :> Eq(query.user_id), None)))
    /\ UNCHANGED reads

\* the body is validated against Feedback before the handler runs
submit_feedback(feedback, cap) ==
    /\ Len(store["feedback"]) < cap
    /\ IF ~ValidFeedback(feedback)
       THEN /\ last' = Fail("submit_feedback", feedback, 422, "ValidationFailed")
            /\ UNCHANGED <<store, nextId>>
       ELSE create_document("submit_feedback", feedback, "feedback", Feedback(feedback))
    /\ UNCHANGED <<db, auth>>

----------------------------------------------------------------------------
(* Specifications *)

Collections ==
    {"user", "contentitem", "task", "checkin", "squad", "post", "program",
     "enrollment", "feedback"}

Init ==
    /\ db \in {None, Some("conn")}
    /\ store = [c \in Collections |-> <<>>]
    /\ nextId = [c \in Collections |-> 1]
    /\ pc = [w \in Workers |-> "idle"]
    /\ local = [w \in Workers |-> <<>>]
    /\ seen = [w \in Workers |-> 0]
    /\ last = Idle

NextAuth ==
    \E w \in Workers :
        \/ \E payload \in SignupRequest : signup_find(w, payload)
        \/ signup_create(w)
        \/ \E payload \in LoginRequest : login_find(w, payload)
        \/ login_update(w)

\* requests on any number of workers, interleaved at their store steps
SpecAuth == Init /\ [][NextAuth]_vars

RECURSIVE SumLen(_)
SumLen(names) ==
    IF names = {} THEN 0
    ELSE LET c == CHOOSE c \in names : TRUE
         IN  Len(store[c]) + SumLen(names \ {c})

TotalDocs == SumLen(Collections)

AllIdle == \A w \in Workers : pc[w] = "idle"

NextAuthSeq ==
    \E w \in Workers :
        \/ AllIdle /\ \E payload \in SignupRequest : signup_find(w, payload)
        \/ signup_create(w)
        \/ AllIdle /\ \E payload \in LoginRequest : login_find(w, payload)
        \/ login_update(w)

\* one request at a time: a request starts when none is under way
SpecAuthSeq == Init /\ [][NextAuthSeq]_vars

NextSquad ==
    \/ \E squad \in SquadPayloads : create_squad(squad, MaxDocs)
    \/ \E query \in SquadQueries : list_squads(query)

SpecSquad == Init /\ [][NextSquad]_vars

NextFeedback == \E feedback \in FeedbackPayloads : submit_feedback(feedback, MaxDocs)

SpecFeedback == Init /\ [][NextFeedback]_vars

\* the long collections: only the first MaxMixed documents vary, and a
\* behaviour grows one of the two (the handlers of each read only their own)
NextLimit ==
    \/ \E checkin \in CheckinPayloads :
            /\ store["post"] = <<>>
            /\ checkin.user_id = "u1" \/ Len(store["checkin"]) < MaxMixed
            /\ create_checkin(checkin, MaxCheckins)
    \/ \E query \in CheckinQueries : list_checkins(query)
    \/ \E post \in PostPayloads :
            /\ store["checkin"] = <<>>
            /\ "squad_id" \notin DOMAIN post \/ Len(store["post"]) < MaxMixed
            /\ create_post(post, MaxPosts)
    \/ \E query \in PostQueries : list_posts(query)

SpecLimit == Init /\ [][NextLimit]_vars

NextRoundTrip ==
    \/ \E task \in TaskPayloads : submit_task(task, MaxDocs)
    \/ \E query \in TaskQueries : list_tasks(query)
    \/ \E enrollment \in EnrollmentPayloads : enroll_user(enrollment, MaxDocs)
    \/ \E query \in EnrollmentQueries : list_enrollments(query)

SpecRoundTrip == Init /\ [][NextRoundTrip]_vars

NextLibrary ==
    \/ \E item \in ContentPayloads : add_content(item, MaxDocs)
    \/ \E query \in ContentQueries : list_content(query)

SpecLibrary == Init /\ [][NextLibrary]_vars

\* every list handler, over a store of at most MaxTotal documents; of the
\* payloads that differ in a field no list handler shapes, one kind is taken
NextViews ==
    \/ /\ TotalDocs < MaxTotal
       /\ \/ \E item \in ContentPayloads :
                "category" \notin DOMAIN item /\ add_content(item, MaxDocs)
          \/ \E task \in TaskPayloads :
                "completed" \notin DOMAIN task /\ submit_task(task, MaxDocs)
          \/ \E checkin \in CheckinPayloads : create_checkin(checkin, MaxDocs)
          \/ \E squad \in SquadPayloads :
                /\ "members" \in DOMAIN squad /\ Len(squad.members) = 2
                /\ create_squad(squad, MaxDocs)
          \/ \E post \in PostPayloads : create_post(post, MaxDocs)
          \/ \E program \in ProgramPayloads : create_program(program, MaxDocs)
          \/ \E enrollment \in EnrollmentPayloads : enroll_user(enrollment, MaxDocs)
    \/ \E query \in ContentQueries : list_content(query)
    \/ \E query \in TaskQueries : list_tasks(query)
    \/ \E query \in CheckinQueries : list_checkins(query)
    \/ \E query \in SquadQueries : list_squads(query)
    \/ \E query \in PostQueries : list_posts(query)
    \/ \E query \in ProgramQueries : list_programs(query)
    \/ \E query \in EnrollmentQueries : list_enrollments(query)

SpecViews == Init /\ [][NextViews]_vars

\* the process started without a store: db stays None
InitDown == Init /\ db = None

NextDown ==
    \/ \E w \in Workers :
        \/ \E payload \in SignupRequest : signup_find(w, payload)
        \/ \E payload \in LoginRequest : login_find(w, payload)
    \/ \E item \in ContentPayloads : add_content(item, MaxDocs)
    \/ \E task \in TaskPayloads : submit_task(task, MaxDocs)
    \/ \E checkin \in CheckinPayloads : create_checkin(checkin, MaxDocs)
    \/ \E squad \in SquadPayloads : create_squad(squad, MaxDocs)
    \/ \E post \in PostPayloads : create_post(post, MaxDocs)
    \/ \E program \in ProgramPayloads : create_program(program, MaxDocs)
    \/ \E enrollment \in EnrollmentPayloads : enroll_user(enrollment, MaxDocs)
    \/ \E feedback \in FeedbackPayloads : submit_feedback(feedback, MaxDocs)
    \/ \E query \in ContentQueries : list_content(query)
    \/ \E query \in TaskQueries : list_tasks(query)
    \/ \E query \in CheckinQueries : list_checkins(query)
    \/ \E query \in SquadQueries : list_squads(query)
    \/ \E query \in PostQueries : list_posts(query)
    \/ \E query \in ProgramQueries : list_programs(query)
    \/ \E query \in EnrollmentQueries : list_enrollments(query)

SpecDown == InitDown /\ [][NextDown]_vars

----------------------------------------------------------------------------
(* Properties *)

\* this step completed a request
Responded == last'.tick # last.tick

Range(seq) == {seq[i] : i \in DOMAIN seq}

Users == store["user"]

EmailPresent(email) == \E i \in DOMAIN Users : Users[i].email = email

EmailCount(email) == Cardinality({i \in DOMAIN Users : Users[i].email = email})

HasToken(d) == "session_token" \in DOMAIN d

\* C1: with one request at a time, a signup whose email equals the email of a
\* record already in the user collection is answered 400 Conflict, and the
\* store is the same before and after it.
C1_SignupConflict ==
    [][(Responded /\ last'.op = "signup" /\ EmailPresent(last'.payload.email))
        => (last'.status = 400 /\ last'.error = "Conflict" /\ store' = store)]_vars

\* a Conflict answer, in a store where a login has already written a token
C1_Witness ==
    /\ last.op = "signup" /\ last.status = 400
    /\ EmailPresent(last.payload.email)
    /\ \E i \in DOMAIN Users : HasToken(Users[i])

\* C2: on a connected store, a login whose email matches no user record is
\* answered 404 NotFound, a login whose email matches records none of which
\* holds the credential derived from the password is answered 401
\* Unauthorized, and neither changes any user record.
C2_LoginFailures ==
    [][(Responded /\ last'.op = "login" /\ Connected) =>
        LET email == last'.payload.email
            derived == PasswordHash(last'.payload.password)
        IN  /\ ~EmailPresent(email)
                => (last'.status = 404 /\ last'.error = "NotFound" /\ store' = store)
            /\ (/\ EmailPresent(email)
                /\ \A i \in DOMAIN Users :
                        Users[i].email = email => Users[i].password_hash # derived)
                => (last'.status = 401 /\ last'.error = "Unauthorized" /\ store' = store)]_vars

\* an Unauthorized answer for the email of a record that holds a session token
C2_Witness ==
    /\ last.op = "login" /\ last.status = 401
    /\ \E i \in DOMAIN Users : Users[i].email = last.payload.email /\ HasToken(Users[i])

Stored(name, id) ==
    LET hits == {i \in DOMAIN store[name] : Str(store[name][i]["_id"]) = id}
    IN  store[name][CHOOSE i \in hits : TRUE]

\* C3: the squad document stored by a squad creation has owner_id among its
\* members, whether or not the submitted list had it; a listed owner is not
\* added again, and the submitted members come first, in their order.
C3_OwnerIsMember ==
    /\ \A i \in DOMAIN store["squad"] :
            store["squad"][i].owner_id \in Range(store["squad"][i].members)
    /\ (last.op = "create_squad" /\ last.status = 200) =>
        LET stored == Stored("squad", last.body.id).members
            submitted == Squad(last.payload).members
            owner == last.payload.owner_id
        IN  /\ owner \in Range(stored)
            /\ owner \in Range(submitted) => stored = submitted
            /\ Len(stored) <= Len(submitted) + 1
            /\ SubSeq(stored, 1, Len(submitted)) = submitted

\* a squad created with members that do not include its owner
C3_Witness ==
    /\ last.op = "create_squad" /\ last.status = 200
    /\ "members" \in DOMAIN last.payload
    /\ last.payload.members # <<>>
    /\ last.payload.owner_id \notin Range(last.payload.members)
    /\ Len(store["squad"]) = 2

RatingOutside(p) ==
    /\ "rating" \in DOMAIN p /\ p.rating # None
    /\ (Val(p.rating) < 1 \/ Val(p.rating) > 5)

\* C4: a feedback whose rating is an integer outside 1..5 is answered
\* ValidationFailed with the store unchanged, and no stored feedback has such
\* a rating.
C4_RatingRejected ==
    /\ [](\A i \in DOMAIN store["feedback"] : ~RatingOutside(store["feedback"][i]))
    /\ [][(Responded /\ last'.op = "submit_feedback" /\ RatingOutside(last'.payload))
            => (last'.status = 422 /\ last'.error = "ValidationFailed"
                /\ store' = store)]_vars

\* a rejection, on a store that is there and holds feedback
C4_Witness ==
    /\ last.op = "submit_feedback" /\ last.status = 422
    /\ Connected /\ store["feedback"] # <<>>

\* the number of documents a limited list's query matches
CheckinMatches(query) ==
    Cardinality({i \in DOMAIN store["checkin"] : store["checkin"][i].user_id = query.user_id})

PostMatches(query) ==
    Cardinality({i \in DOMAIN store["post"] :
        /\ query.squad_id \in {None, store["post"][i].squad_id}
        /\ query.user_id \in {None, Some(store["post"][i].user_id)}})

LimitedList == last.op \in {"list_checkins", "list_posts"} /\ last.status = 200

LastMatches ==
    IF last.op = "list_checkins" THEN CheckinMatches(last.payload)
    ELSE PostMatches(last.payload)

\* C5 as claimed: a list with limit N returns at most N records, and a list
\* without limit returns every matching record.
C5_OmittedLimitReturnsAll ==
    LimitedList =>
        IF last.payload.limit # None THEN Len(last.body) <= Val(last.payload.limit)
        ELSE Len(last.body) = LastMatches

\* C5 as amended: a list with limit N returns at most N records, and a list
\* without limit returns the matching records up to the handler's default
\* limit, 30 check-ins or 50 posts.
C5_OmittedLimitIsDefault ==
    LimitedList =>
        IF last.payload.limit # None THEN Len(last.body) <= Val(last.payload.limit)
        ELSE Len(last.body) =
                Min(LastMatches, IF last.op = "list_checkins" THEN 30 ELSE 50)

\* check-ins listed without a limit when more than 30 match
C5_Witness ==
    /\ last.op = "list_checkins" /\ last.status = 200
    /\ last.payload.limit = None
    /\ CheckinMatches(last.payload) > 30

\* a create answered by last, and after it a list on the user_id it was for
TaskRoundTrip ==
    /\ Responded
    /\ last.op = "submit_task" /\ last.status = 200
    /\ last'.op = "list_tasks" /\ last'.status = 200
    /\ last'.payload.user_id = last.payload.user_id
    /\ last'.payload.week \in {None, Some(last.payload.week)}

EnrollmentRoundTrip ==
    /\ Responded
    /\ last.op = "enroll_user" /\ last.status = 200
    /\ last'.op = "list_enrollments" /\ last'.status = 200
    /\ last'.payload.user_id = last.payload.user_id

SubmittedFields(record, payload) == \A k \in DOMAIN payload : record[k] = payload[k]

WithIdentifier(records, id) == {i \in DOMAIN records : records[i].id = Some(id)}

ListedFrom ==
    [list_content |-> "contentitem", list_tasks |-> "task", list_checkins |-> "checkin",
     list_squads |-> "squad", list_posts |-> "post", list_programs |-> "program",
     list_enrollments |-> "enrollment"]

\* C7: no record a list handler returns has an _id field; library and
\* program records have no id either, and a record of the other lists has
\* the stored document's fields and, as id, the string of its identifier.
C7_NoInternalId ==
    (last.op \in DOMAIN ListedFrom /\ last.status = 200) =>
        \A n \in DOMAIN last.body :
            LET record == last.body[n]
            IN  /\ "_id" \notin DOMAIN record
                /\ IF last.op \in {"list_content", "list_programs"}
                   THEN "id" \notin DOMAIN record
                   ELSE /\ "id" \in DOMAIN record
                        /\ \E i \in DOMAIN store[ListedFrom[last.op]] :
                            LET d == store[ListedFrom[last.op]][i]
                            IN  /\ record.id = Some(Str(d["_id"]))
                                /\ Pop(record, "id") = Pop(d, "_id")

\* a list of squads that returned two records
C7_Witness ==
    /\ last.op = "list_squads" /\ last.status = 200
    /\ Len(last.body) = 2

\* C8 as claimed: without a store, every operation that gets as far as the
\* store is answered 500 StoreUnavailable, and nothing is written.
C8_StoreUnavailable ==
    (db = None /\ last.op # "none" /\ last.error # "ValidationFailed") =>
        /\ last.status = 500 /\ last.error = "StoreUnavailable"
        /\ \A c \in Collections : store[c] = <<>>

\* what the library search is to return: the documents the category and tier
\* given select, whose title or description contains q without regard to case
LibraryExpected(query) ==
    LET Selected(d) ==
            /\ query.category \in {None, Some(d.category)}
            /\ query.tier \in {None, Some(d.tier)}
            /\ query.q # None =>
                \/ Contains(Lower(Val(query.q)), Lower(d.title))
                \/ /\ d.description # None
                   /\ Contains(Lower(Val(query.q)), Lower(Val(d.description)))
        selected == SelectSeq(store["contentitem"], Selected)
    IN  [i \in DOMAIN selected |-> Project(Pop(selected[i], "_id"), ContentItemFields)]

\* C9 as claimed: on a connected store the library search succeeds and
\* returns exactly those documents, those without a description included.
C9_SearchNeverFails ==
    (last.op = "list_content" /\ Connected) =>
        (last.status = 200 /\ last.body = LibraryExpected(last.payload))

====
